---- MODULE Spec2Model ----
(***************************************************************************)
(* A model of nist-time-sync (src/src/main.rs): the daytime reply parser,  *)
(* the clock setter, the foreground sync loop (non-Windows main) and the   *)
(* managed-service sync loop (Windows run_service).                        *)
(*                                                                         *)
(* A Rust &str is modelled as the sequence of its UTF-8 bytes; an ASCII    *)
(* byte is written as the one-character string of its character, and the   *)
(* three bytes of U+FFFD (what from_utf8_lossy puts in place of an invalid *)
(* byte) as "EF", "BF", "BD".                                              *)
(***************************************************************************)
EXTENDS Integers, Sequences, FiniteSets, TLC

\* ------------------------------------------------------------------ bounds

\* Largest --interval value drawn (minutes).
MaxInterval == 2

\* Sync phases one run may start.
MaxSyncs == 2

\* Stop events the service host may deliver in one run.
MaxStops == 2

\* recv_timeout polls that may time out in one run of the service.
MaxPolls == 3605

\* ------------------------------------------------------- program constants

\* "default_value = 60" is not used by the model; the two factors below are.
\* thread::sleep(Duration::from_secs(args.interval * 60))
SleepFactor == 60

\* chrono::Duration::minutes((args.interval * 60) as i64)
WakeFactor == 60

\* shutdown_rx.recv_timeout(Duration::from_secs(1))
RecvTimeoutSecs == 1

\* date[0..2].parse::<i32>().unwrap() + 2000
Century == 2000

\* response.split_whitespace() fields used
DateField == 1
TimeField == 2
MsField == 6

\* --------------------------------------------------------------- &str, u8

Digits == <<"0", "1", "2", "3", "4", "5", "6", "7", "8", "9">>

\* char::to_digit(10): the digit's value, or -1 for None.
to_digit(c) ==
    IF \E i \in 1..10 : Digits[i] = c
    THEN (CHOOSE i \in 1..10 : Digits[i] = c) - 1
    ELSE -1

\* char::is_whitespace on the bytes the model uses.
is_whitespace(c) == c \in {" ", "\n", "\r", "\t"}

\* A UTF-8 continuation byte (10xxxxxx): those of U+FFFD.
is_continuation(c) == c \in {"BF", "BD"}

\* str::is_char_boundary(i), i a byte offset from 0.
is_char_boundary(s, i) ==
    \/ i = 0
    \/ i = Len(s)
    \/ i < Len(s) /\ ~is_continuation(s[i + 1])

\* &s[a..b]: the slice, or a panic (end out of range, or an offset inside a
\* character).
Slice(s, a, b) ==
    IF a <= b /\ b <= Len(s) /\ is_char_boundary(s, a) /\ is_char_boundary(s, b)
    THEN [ok |-> TRUE, val |-> SubSeq(s, a + 1, b)]
    ELSE [ok |-> FALSE, val |-> <<>>]

RECURSIVE TrimStart(_)
TrimStart(s) ==
    IF s # <<>> /\ is_whitespace(Head(s)) THEN TrimStart(Tail(s)) ELSE s

RECURSIVE TrimEnd(_)
TrimEnd(s) ==
    IF s # <<>> /\ is_whitespace(s[Len(s)])
    THEN TrimEnd(SubSeq(s, 1, Len(s) - 1))
    ELSE s

\* str::trim
Trim(s) == TrimEnd(TrimStart(s))

\* str::split_whitespace().collect(): the maximal runs of non-whitespace.
\* acc holds the fields closed so far, cur the field being read.
RECURSIVE SplitFrom(_, _, _)
SplitFrom(s, acc, cur) ==
    IF s = <<>>
    THEN IF cur = <<>> THEN acc ELSE Append(acc, cur)
    ELSE IF is_whitespace(Head(s))
         THEN SplitFrom(Tail(s), IF cur = <<>> THEN acc ELSE Append(acc, cur), <<>>)
         ELSE SplitFrom(Tail(s), acc, Append(cur, Head(s)))

split_whitespace(s) == SplitFrom(s, <<>>, <<>>)

\* ------------------------------------------------------------ str::parse

\* The digit loop of core::num from_str_radix: result * 10 + digit, left to
\* right; ok is FALSE at the first byte that is no digit.
RECURSIVE DigitFold(_, _)
DigitFold(ds, acc) ==
    IF ds = <<>> THEN [ok |-> TRUE, val |-> acc]
    ELSE IF to_digit(Head(ds)) < 0 THEN [ok |-> FALSE, val |-> 0]
    ELSE DigitFold(Tail(ds), acc * 10 + to_digit(Head(ds)))

\* <i32|u32 as FromStr>::from_str. Empty, or a lone sign, is an error; "+"
\* is accepted by both types, "-" only by the signed one.
parse_int(src, signed) ==
    IF src = <<>> THEN [ok |-> FALSE, val |-> 0]
    ELSE IF Len(src) = 1 /\ src[1] \in {"+", "-"} THEN [ok |-> FALSE, val |-> 0]
    ELSE IF src[1] = "+" THEN DigitFold(Tail(src), 0)
    ELSE IF src[1] = "-" /\ signed
         THEN LET r == DigitFold(Tail(src), 0)
              IN  [ok |-> r.ok, val |-> 0 - r.val]
    ELSE DigitFold(src, 0)

parse_i32(src) == parse_int(src, TRUE)

parse_u32(src) == parse_int(src, FALSE)

\* Index of the first "." of s, or Len(s) + 1.
RECURSIVE DotAt(_, _)
DotAt(s, i) ==
    IF i > Len(s) THEN i
    ELSE IF s[i] = "." THEN i
    ELSE DotAt(s, i + 1)

\* <f64 as FromStr>::from_str, on inputs without an exponent: an optional
\* sign, then "inf", "infinity", "nan", or digits [ "." digits ] with a digit
\* on at least one side. The value is kept as its sign and the integer part
\* of its magnitude (whole): with at most 15 significant digits the nearest
\* f64 has the same integer part as the decimal.
parse_f64(src) ==
    LET neg  == src # <<>> /\ src[1] = "-"
        body == IF src # <<>> /\ src[1] \in {"+", "-"} THEN Tail(src) ELSE src
        dot  == DotAt(body, 1)
        ip   == SubSeq(body, 1, dot - 1)
        fp   == SubSeq(body, dot + 1, Len(body))
        ipv  == DigitFold(ip, 0)
        fpv  == DigitFold(fp, 0)
        bad  == [ok |-> FALSE, kind |-> "err", neg |-> FALSE, whole |-> 0]
    IN  IF body \in {<<"i", "n", "f">>, <<"i", "n", "f", "i", "n", "i", "t", "y">>}
        THEN [ok |-> TRUE, kind |-> "inf", neg |-> neg, whole |-> 0]
        ELSE IF body = <<"n", "a", "n">>
        THEN [ok |-> TRUE, kind |-> "nan", neg |-> neg, whole |-> 0]
        ELSE IF ip = <<>> /\ fp = <<>> THEN bad
        ELSE IF ~ipv.ok \/ ~fpv.ok THEN bad
        ELSE [ok |-> TRUE, kind |-> "finite", neg |-> neg, whole |-> ipv.val]

\* `f as i64`: truncation toward zero, NaN to 0, saturation at the ends of
\* i64 (sat: the result is i64::MAX or i64::MIN, which the model does not
\* hold as a number).
f64_as_i64(f) ==
    CASE f.kind = "nan" -> [sat |-> FALSE, val |-> 0]
      [] f.kind = "inf" -> [sat |-> TRUE, val |-> IF f.neg THEN -1 ELSE 1]
      [] OTHER -> [sat |-> FALSE, val |-> IF f.neg THEN 0 - f.whole ELSE f.whole]

\* ------------------------------------------------------------------ chrono

SecsPerDay == 86400

MillisPerSec == 1000

is_leap_year(y) == (y % 4 = 0 /\ y % 100 # 0) \/ y % 400 = 0

days_in_month(y, m) ==
    CASE m \in {1, 3, 5, 7, 8, 10, 12} -> 31
      [] m \in {4, 6, 9, 11} -> 30
      [] OTHER -> IF is_leap_year(y) THEN 29 ELSE 28

\* NaiveDate::from_ymd_opt: None unless the day exists in the calendar.
from_ymd_opt(y, m, d) ==
    [ok |-> m \in 1..12 /\ d >= 1 /\ d <= days_in_month(y, m),
     year |-> y, month |-> m, day |-> d]

\* NaiveTime::from_hms_opt: None unless hour < 24, minute < 60, second < 60.
from_hms_opt(h, mi, s) ==
    [ok |-> h < 24 /\ mi < 60 /\ s < 60,
     secs |-> h * 3600 + mi * 60 + s]

\* NaiveDateTime::new(date, time): a calendar day, the second of that day and
\* the fraction of the second (kept in milliseconds).
NaiveDateTime_new(date, time) ==
    [year |-> date.year, month |-> date.month, day |-> date.day,
     secs |-> time.secs, frac |-> 0]

\* The value a panicking parse leaves behind: none. Only its shape is used.
NoTime == [year |-> 0, month |-> 0, day |-> 0, secs |-> 0, frac |-> 0]

SuccDay(t) ==
    IF t.day < days_in_month(t.year, t.month) THEN [t EXCEPT !.day = t.day + 1]
    ELSE IF t.month < 12 THEN [t EXCEPT !.month = t.month + 1, !.day = 1]
    ELSE [t EXCEPT !.year = t.year + 1, !.month = 1, !.day = 1]

PredDay(t) ==
    IF t.day > 1 THEN [t EXCEPT !.day = t.day - 1]
    ELSE IF t.month > 1
         THEN [t EXCEPT !.month = t.month - 1,
                        !.day = days_in_month(t.year, t.month - 1)]
    ELSE [t EXCEPT !.year = t.year - 1, !.month = 12, !.day = 31]

RECURSIVE AddDays(_, _)
AddDays(t, n) ==
    IF n = 0 THEN t
    ELSE IF n > 0 THEN AddDays(SuccDay(t), n - 1)
    ELSE AddDays(PredDay(t), n + 1)

\* DateTime<Utc> + Duration::milliseconds(ms): NaiveTime::overflowing_add_signed
\* carries the fraction into the seconds and the seconds into whole days,
\* which NaiveDate then adds.
AddMillis(t, ms) ==
    LET f == t.frac + ms
        s == t.secs + (f \div MillisPerSec)
    IN  AddDays([t EXCEPT !.frac = f % MillisPerSec, !.secs = s % SecsPerDay],
                s \div SecsPerDay)

\* DateTime's PartialOrd: a >= b.
TimeGe(a, b) ==
    LET ka == <<a.year, a.month, a.day, a.secs, a.frac>>
        kb == <<b.year, b.month, b.day, b.secs, b.frac>>
    IN  \/ ka = kb
        \/ \E i \in 1..5 : ka[i] > kb[i] /\ \A j \in 1..(i - 1) : ka[j] = kb[j]

\* Datelike / Timelike accessors of a DateTime<Utc>.
hour(t) == t.secs \div 3600

minute(t) == (t.secs % 3600) \div 60

second(t) == t.secs % 60

timestamp_subsec_millis(t) == t.frac

\* Utc.from_utc_datetime(&NaiveDateTime::new(naive.date(), naive.time()))
parse_datetime(naive) ==
    NaiveDateTime_new([year |-> naive.year, month |-> naive.month, day |-> naive.day],
                      [secs |-> naive.secs])

\* ----------------------------------------------------- parse_nist_response

\* A year offset of 1900: two-digit years read as 19YY.
YearOf_1900(yy) == yy + 1900

\* The year offset added to the two-digit year.
YearOf(yy) == yy + Century

\* `milisseconds as i64`, the argument of chrono::Duration::milliseconds.
MillisOf(f) == f64_as_i64(f)

Panic(line) == [kind |-> "panic", at |-> line, time |-> NoTime]

\* parse_nist_response(response): the instant, or the panic of the first
\* index, slice, unwrap or addition that fails (at: its source line).
parse_nist_response(response) ==
    LET fields == split_whitespace(response)
    IN
    IF Len(fields) < DateField + 1 THEN Panic(62) ELSE
    IF Len(fields) < TimeField + 1 THEN Panic(63) ELSE
    LET date == fields[DateField + 1]
        time == fields[TimeField + 1]
        ys == Slice(date, 0, 2)
        ms == Slice(date, 3, 5)
        ds == Slice(date, 6, 8)
        hs == Slice(time, 0, 2)
        is == Slice(time, 3, 5)
        ss == Slice(time, 6, 8)
        yv == parse_i32(ys.val)
        mv == parse_u32(ms.val)
        dv == parse_u32(ds.val)
        hv == parse_u32(hs.val)
        iv == parse_u32(is.val)
        sv == parse_u32(ss.val)
    IN
    IF ~ys.ok \/ ~yv.ok THEN Panic(64) ELSE
    IF ~ms.ok \/ ~mv.ok THEN Panic(65) ELSE
    IF ~ds.ok \/ ~dv.ok THEN Panic(66) ELSE
    IF ~hs.ok \/ ~hv.ok THEN Panic(67) ELSE
    IF ~is.ok \/ ~iv.ok THEN Panic(68) ELSE
    IF ~ss.ok \/ ~sv.ok THEN Panic(69) ELSE
    IF Len(fields) < MsField + 1 THEN Panic(70) ELSE
    LET fv == parse_f64(fields[MsField + 1])
        nd == from_ymd_opt(YearOf(yv.val), mv.val, dv.val)
        nt == from_hms_opt(hv.val, iv.val, sv.val)
    IN
    IF ~fv.ok THEN Panic(70) ELSE
    IF ~nd.ok THEN Panic(72) ELSE
    IF ~nt.ok THEN Panic(73) ELSE
    LET datetime == parse_datetime(NaiveDateTime_new(nd, nt))
        millis == MillisOf(fv)
    IN
    IF millis.sat THEN Panic(76)
    ELSE [kind |-> "ok", at |-> 0, time |-> AddMillis(datetime, millis.val)]

\* ------------------------------------------------------------------- state

VARIABLES
    mode,           \* "foreground" (non-Windows main) | "service" (run_service) | "parse"
    interval,       \* args.interval
    pc,             \* where the main thread stands
    now,            \* the system clock, what Utc::now() returns
    trueTime,       \* the time server's clock
    sleep_until,    \* run_service's sleep_until
    time_string,    \* what get_nist_server_time returned last
    parsed,         \* what parse_nist_response returned, or how it panicked
    outcome,        \* how the last Sync phase ended
    printed,        \* the last line written by println!
    chan,           \* messages queued in the mpsc channel (shutdown_tx -> shutdown_rx)
    reported,       \* the states the host accepted through set_service_status
    handler,        \* the registered event_handler: "none" | "registered" | "panicked"
    lastAck,        \* what event_handler returned last
    syncsStarted,   \* Sync phases started
    stopsSent,      \* Stop events delivered
    polls,          \* recv_timeout calls that timed out
    stopPhase,      \* where the main thread stood when the last Stop was delivered
    calc            \* the interval arithmetic on its own: operands and results

vars == <<mode, interval, pc, now, trueTime, sleep_until, time_string, parsed,
          outcome, printed, chan, reported, handler, lastAck, syncsStarted,
          stopsSent, polls, stopPhase, calc>>

\* ------------------------------------------------------------ environment

\* The server's clock when the program starts: half a minute before the end
\* of 2024, so that a wake time an hour later is in the next year.
StartTime == [year |-> 2024, month |-> 12, day |-> 31, secs |-> 86370, frac |-> 0]

\* The local clock's error before the first sync, in milliseconds.
LocalSkews == {-3000, 5000}

\* Time between the server stamping its reply and the reply being read.
Latencies == {0, 2000}

\* The msADV field of the replies the server sends in the scheduler runs.
ServerAdv == <<"5", "0", ".", "0">>

\* What settimeofday / SetSystemTime can answer: success, a denied write, or
\* another failure.
ClockAnswers == {"ok", "EPERM", "EINVAL"}

TwoDigits(n) == <<Digits[(n \div 10) + 1], Digits[(n % 10) + 1]>>

Words(ws) ==
    LET RECURSIVE Join(_)
        Join(w) == IF w = <<>> THEN <<>>
                   ELSE IF Len(w) = 1 THEN w[1]
                   ELSE w[1] \o <<" ">> \o Join(Tail(w))
    IN  Join(ws)

\* A daytime reply line: "JJJJJ YY-MM-DD HH:MM:SS TT L H msADV UTC(NIST) *".
ReplyLine(yy, mo, dd, hh, mi, ss, adv) ==
    Words(<<
        <<"6", "0", "6", "7", "5">>,
        yy \o <<"-">> \o mo \o <<"-">> \o dd,
        hh \o <<":">> \o mi \o <<":">> \o ss,
        <<"0", "0">>, <<"0">>, <<"0">>,
        adv,
        <<"U", "T", "C", "(", "N", "I", "S", "T", ")">>,
        <<"*">> >>)

\* The bytes the server sends at time t: the line between two line feeds.
ServerBytes(t) ==
    <<"\n">> \o ReplyLine(TwoDigits(t.year % 100), TwoDigits(t.month), TwoDigits(t.day),
                          TwoDigits(hour(t)), TwoDigits(minute(t)), TwoDigits(second(t)),
                          ServerAdv) \o <<"\n">>

\* Replies a broken or foreign server sends: nothing, a line cut after the
\* time field, a line with month 13.
BadBytes ==
    { <<>>,
      <<"\n">> \o Words(<< <<"6", "0", "6", "7", "5">>,
                           <<"2", "4", "-", "1", "2", "-", "3", "1">>,
                           <<"2", "3", ":", "5", "9", ":", "3", "0">> >>),
      <<"\n">> \o ReplyLine(<<"2", "4">>, <<"1", "3">>, <<"0", "1">>,
                            <<"1", "0">>, <<"0", "0">>, <<"0", "0">>, ServerAdv) }

\* ------------------------------------------------------------------- Init

NoParse == [kind |-> "none", at |-> 0, time |-> NoTime]

\* No interval arithmetic under way.
NoCalc == [kind |-> "none"]

Init ==
    /\ mode \in {"foreground", "service"}
    /\ interval \in 0..MaxInterval
    /\ pc = "main"
    /\ trueTime = StartTime
    /\ \E k \in LocalSkews : now = AddMillis(StartTime, k)
    /\ sleep_until = NoTime
    /\ time_string = <<>>
    /\ parsed = NoParse
    /\ outcome = "none"
    /\ printed = "none"
    /\ chan = 0
    /\ reported = <<>>
    /\ handler = "none"
    /\ lastAck = "none"
    /\ syncsStarted = 0
    /\ stopsSent = 0
    /\ polls = 0
    /\ stopPhase = "none"
    /\ calc = NoCalc

\* ---------------------------------------------------------- the clock setter

\* set_system_time: Ok, or the one Err it has for every failure of the
\* platform call (errno / GetLastError is not read).
set_system_time(answer) ==
    IF answer = "ok"
    THEN [ok |-> TRUE, err |-> ""]
    ELSE [ok |-> FALSE, err |-> "Error setting system time"]

\* The Err of sync_with_nist_server: `Err(_e) => Err("...".into())`.
SyncError(e) == "Error setting system time, check your permissions."

\* The timestamp rounded up to the next whole second.
ClockValue_Ceil(t) ==
    IF mode = "foreground" /\ t.frac > 0
    THEN AddMillis([t EXCEPT !.frac = 0], MillisPerSec)
    ELSE t

\* The instant the platform call commits: settimeofday gets whole seconds
\* (tv_usec: 0), SetSystemTime gets wMilliseconds too.
ClockValue(t) == IF mode = "foreground" THEN [t EXCEPT !.frac = 0] ELSE t

\* ------------------------------------------------------------ the scheduler

\* time + chrono::Duration::minutes((args.interval * 60) as i64)
NextWake(time) == AddMillis(time, interval * WakeFactor * 60 * MillisPerSec)

\* Duration::from_secs(args.interval * 60), in milliseconds.
SleepMillis == interval * SleepFactor * MillisPerSec

\* `match args.interval { 1.. => ..., _ => ... }` of the non-Windows main.
IntervalAccepted == interval >= 1

\* The loop going on after an error: the next iteration instead of break.
AfterSyncError_Retry == IF mode = "service" THEN "recv" ELSE "sleep"

\* Where the loop goes on Err(e) of sync_with_nist_server: `break`.
AfterSyncError == IF mode = "service" THEN "report_stopped" ELSE "done"

\* A wait that ignores the channel: thread::sleep for the poll period.
MayTimeOut_Always == TRUE

\* Whether recv_timeout can time out: only while no message is queued.
MayTimeOut == chan = 0

\* The host delivers Stop only to a service whose last reported state
\* accepts it (controls_accepted: STOP with Running, empty with Stopped).
HostAcceptsStop ==
    IF reported = <<>> THEN FALSE ELSE reported[Len(reported)] = "Running"

\* The host has been told that the service stopped.
HostSeesStopped ==
    IF reported = <<>> THEN FALSE ELSE reported[Len(reported)] = "Stopped"

\* shutdown_rx is a local of run_service: it lives until run_service returns.
RxAlive == pc # "returned"

TimePasses(ms) ==
    /\ now' = AddMillis(now, ms)
    /\ trueTime' = AddMillis(trueTime, ms)

\* `let mut sleep_until = Utc::now();` before the service loop.
InitialWake_AfterInterval == NextWake(now)

InitialWake == now

\* Where a successful sync leaves the loop: the Ok arm falls through to
\* recv_timeout (service) or to thread::sleep (foreground).
AfterSyncOk_Break == IF mode = "service" THEN "report_stopped" ELSE "done"

AfterSyncOk == IF mode = "service" THEN "recv" ELSE "sleep"

\* shutdown_tx.send(()) on the unbounded channel: one more message queued.
AfterSend_Dropped == chan

AfterSend == chan + 1

\* main (non-Windows): Args::parse, the match on the interval, the banner.
MainStart ==
    /\ mode = "foreground" /\ pc = "main"
    /\ IF IntervalAccepted
       THEN /\ printed' = "Syncing system time with NIST server every"
            /\ pc' = "fetch"
            /\ syncsStarted' = syncsStarted + 1
       ELSE /\ printed' = "Interval must be higher than 0"
            /\ pc' = "done"
            /\ UNCHANGED syncsStarted
    /\ UNCHANGED <<mode, interval, now, trueTime, sleep_until, time_string, parsed,
                   outcome, chan, reported, handler, lastAck, stopsSent, polls>>
    /\ UNCHANGED <<stopPhase, calc>>

\* run_service up to the loop: the channel, Args::parse, register (?), the
\* banner, the Running report (?), sleep_until = Utc::now(), and the first
\* `Utc::now() >= sleep_until` at the head of the loop.
ServiceStart ==
    /\ mode = "service" /\ pc = "main"
    /\ \E registered \in BOOLEAN, accepted \in BOOLEAN :
         IF ~registered
         THEN /\ pc' = "returned"
              /\ UNCHANGED <<handler, printed, reported, sleep_until, syncsStarted>>
         ELSE /\ handler' = "registered"
              /\ printed' = "Syncing system time with NIST server every"
              /\ IF ~accepted
                 THEN /\ pc' = "returned"
                      /\ UNCHANGED <<reported, sleep_until, syncsStarted>>
                 ELSE /\ reported' = Append(reported, "Running")
                      /\ sleep_until' = InitialWake
                      /\ IF TimeGe(now, InitialWake)
                         THEN /\ pc' = "fetch"
                              /\ syncsStarted' = syncsStarted + 1
                         ELSE /\ pc' = "recv"
                              /\ UNCHANGED syncsStarted
    /\ UNCHANGED <<mode, interval, now, trueTime, time_string, parsed, outcome,
                   chan, lastAck, stopsSent, polls>>
    /\ UNCHANGED <<stopPhase, calc>>

\* get_nist_server_time().unwrap(): connect, one read, lossy decode, trim.
\* An io::Error makes the unwrap panic.
Fetch ==
    /\ pc = "fetch"
    /\ \/ /\ outcome' = "network"
          /\ pc' = "panicked"
          /\ UNCHANGED <<now, trueTime, time_string>>
       \/ \E d \in Latencies, bytes \in {ServerBytes(trueTime)} \cup BadBytes :
            /\ time_string' = Trim(bytes)
            /\ TimePasses(d)
            /\ pc' = "apply"
            /\ UNCHANGED outcome
    /\ UNCHANGED <<mode, interval, sleep_until, parsed, printed, chan, reported,
                   handler, lastAck, syncsStarted, stopsSent, polls>>
    /\ UNCHANGED <<stopPhase, calc>>

\* The rest of sync_with_nist_server and the caller's match on its result:
\* parse_nist_response (may panic), set_system_time, then Ok: println and the
\* next wake time / Err: println and break.
ParseAndSet ==
    /\ pc = "apply"
    /\ parsed' = parse_nist_response(time_string)
    /\ IF parsed'.kind = "panic"
       THEN /\ outcome' = "format"
            /\ pc' = "panicked"
            /\ UNCHANGED <<now, sleep_until, printed>>
       ELSE \E answer \in ClockAnswers :
              LET set == set_system_time(answer)
              IN  IF set.ok
                  THEN /\ now' = ClockValue(parsed'.time)
                       /\ outcome' = "ok"
                       /\ pc' = AfterSyncOk
                       /\ IF mode = "service"
                          THEN /\ printed' = "System time set to"
                               /\ sleep_until' = NextWake(parsed'.time)
                          ELSE /\ printed' = "System time synced with NIST server"
                               /\ UNCHANGED sleep_until
                  ELSE /\ outcome' = answer
                       /\ printed' = SyncError(set.err)
                       /\ pc' = AfterSyncError
                       /\ UNCHANGED <<now, sleep_until>>
    /\ UNCHANGED <<mode, interval, trueTime, time_string, chan, reported, handler,
                   lastAck, syncsStarted, stopsSent, polls>>
    /\ UNCHANGED <<stopPhase, calc>>

\* thread::sleep(Duration::from_secs(args.interval * 60)), then the loop's
\* next sync_with_nist_server.
Sleep ==
    /\ mode = "foreground" /\ pc = "sleep"
    /\ syncsStarted < MaxSyncs
    /\ TimePasses(SleepMillis)
    /\ pc' = "fetch"
    /\ syncsStarted' = syncsStarted + 1
    /\ UNCHANGED <<mode, interval, sleep_until, time_string, parsed, outcome,
                   printed, chan, reported, handler, lastAck, stopsSent, polls>>
    /\ UNCHANGED <<stopPhase, calc>>

\* recv_timeout returns Ok(_): break. (Disconnected cannot happen: the
\* sender lives in the registered handler, which the program never drops.)
RecvStop ==
    /\ mode = "service" /\ pc = "recv"
    /\ chan > 0
    /\ chan' = chan - 1
    /\ pc' = "report_stopped"
    /\ UNCHANGED <<mode, interval, now, trueTime, sleep_until, time_string, parsed,
                   outcome, printed, reported, handler, lastAck, syncsStarted,
                   stopsSent, polls>>
    /\ UNCHANGED <<stopPhase, calc>>

\* recv_timeout returns Err(Timeout) after one second, and the loop's next
\* `Utc::now() >= sleep_until` either starts a Sync phase or waits again.
RecvTimedOut ==
    /\ mode = "service" /\ pc = "recv"
    /\ MayTimeOut
    /\ polls < MaxPolls
    /\ TimePasses(RecvTimeoutSecs * MillisPerSec)
    /\ polls' = polls + 1
    /\ IF TimeGe(now', sleep_until)
       THEN /\ syncsStarted < MaxSyncs
            /\ pc' = "fetch"
            /\ syncsStarted' = syncsStarted + 1
       ELSE /\ pc' = "recv"
            /\ UNCHANGED syncsStarted
    /\ UNCHANGED <<mode, interval, sleep_until, time_string, parsed, outcome,
                   printed, chan, reported, handler, lastAck, stopsSent>>
    /\ UNCHANGED <<stopPhase, calc>>

\* The final report repeating the first one's state.
StoppedState_Running == "Running"

\* current_state of the report after the loop.
StoppedState == "Stopped"

\* The Stopped report after the loop (?), and run_service's return.
ReportStopped ==
    /\ pc = "report_stopped"
    /\ \E accepted \in BOOLEAN :
         reported' = IF accepted THEN Append(reported, StoppedState) ELSE reported
    /\ pc' = "returned"
    /\ UNCHANGED <<mode, interval, now, trueTime, sleep_until, time_string, parsed,
                   outcome, printed, chan, handler, lastAck, syncsStarted,
                   stopsSent, polls>>
    /\ UNCHANGED <<stopPhase, calc>>

\* event_handler(ServiceControl::Stop): shutdown_tx.send(()).unwrap(), which
\* panics once the receiver is dropped.
HandlerStop ==
    /\ handler = "registered" /\ pc # "panicked"
    /\ HostAcceptsStop
    /\ stopsSent < MaxStops
    /\ stopsSent' = stopsSent + 1
    /\ stopPhase' = pc
    /\ IF RxAlive
       THEN /\ chan' = AfterSend
            /\ lastAck' = "NoError"
            /\ UNCHANGED handler
       ELSE /\ handler' = "panicked"
            /\ UNCHANGED <<chan, lastAck>>
    /\ UNCHANGED <<mode, interval, pc, now, trueTime, sleep_until, time_string,
                   parsed, outcome, printed, reported, syncsStarted, polls>>
    /\ UNCHANGED calc

\* An Interrogate arm that also runs the Stop arm's send.
HandlerInterrogate_AsStop ==
    /\ handler = "registered" /\ pc # "panicked"
    /\ ~HostSeesStopped
    /\ chan < MaxStops
    /\ chan' = chan + 1
    /\ lastAck' = "NoError"
    /\ UNCHANGED <<mode, interval, pc, now, trueTime, sleep_until, time_string,
                   parsed, outcome, printed, reported, handler, syncsStarted,
                   stopsSent, polls, stopPhase, calc>>

\* event_handler(ServiceControl::Interrogate): NoError, nothing else.
HandlerInterrogate ==
    /\ handler = "registered" /\ pc # "panicked"
    /\ ~HostSeesStopped
    /\ lastAck' = "NoError"
    /\ UNCHANGED <<mode, interval, pc, now, trueTime, sleep_until, time_string,
                   parsed, outcome, printed, chan, reported, handler, syncsStarted,
                   stopsSent, polls>>
    /\ UNCHANGED <<stopPhase, calc>>

Next ==
    \/ MainStart
    \/ ServiceStart
    \/ Fetch
    \/ ParseAndSet
    \/ Sleep
    \/ RecvStop
    \/ RecvTimedOut
    \/ ReportStopped
    \/ HandlerStop
    \/ HandlerInterrogate

Spec == Init /\ [][Next]_vars

\* ------------------------------------------------- the parser on its own

\* Month and day pairs: days that exist, days that exist only in leap years,
\* and days no calendar has.
MonthDays ==
    { <<1, 1>>, <<2, 28>>, <<2, 29>>, <<6, 1>>, <<12, 31>>,
      <<0, 1>>, <<13, 1>>, <<1, 0>>, <<1, 32>>, <<2, 30>>, <<4, 31>> }

\* Hour, minute, second triples, in and out of range.
DayTimes ==
    { <<0, 0, 0>>, <<14, 23, 5>>, <<23, 59, 59>>,
      <<24, 0, 0>>, <<25, 0, 0>>, <<12, 60, 0>>, <<23, 59, 60>> }

\* msADV fields with the whole milliseconds each stands for (truncated
\* toward zero), read off the decimal by hand.
AdvTable ==
    { << <<"5", "0", ".", "0">>, 50 >>,
      << <<"1", "2", "3", ".", "4">>, 123 >>,
      << <<"1", "2", "3", ".", "7">>, 123 >>,
      << <<"0", ".", "9">>, 0 >>,
      << <<"9", "9", "9", ".", "9">>, 999 >>,
      << <<"7">>, 7 >>,
      << <<"1", "5", "0", "0", ".", "5">>, 1500 >>,
      << <<"-", "0", ".", "5">>, 0 >>,
      << <<"-", "1", ".", "5">>, -1 >> }

\* Seventh fields that are no decimal number.
BadAdvs ==
    { <<"x">>, <<".">>, <<"1", ".", "2", ".", "3">>, <<"n", "a", "n">>,
      <<"i", "n", "f">> }

DefaultAdv == <<"1", "2", "3", ".", "4">>

\* Every two-digit year with every month and day pair.
YearLines ==
    { ReplyLine(TwoDigits(y), TwoDigits(md[1]), TwoDigits(md[2]),
                <<"1", "4">>, <<"2", "3">>, <<"0", "5">>, DefaultAdv) :
        y \in 0..99, md \in MonthDays }

\* Every time of day with every seventh field, on a few days.
TimeLines ==
    { ReplyLine(TwoDigits(y), TwoDigits(md[1]), TwoDigits(md[2]),
                TwoDigits(t[1]), TwoDigits(t[2]), TwoDigits(t[3]), a) :
        y \in {0, 24, 99}, md \in {<<6, 1>>, <<12, 31>>}, t \in DayTimes,
        a \in {e[1] : e \in AdvTable} \cup BadAdvs }

\* The fields of the specification's example reply.
ExampleFields ==
    << <<"5", "2">>,
       <<"2", "4", "-", "0", "6", "-", "0", "1">>,
       <<"1", "4", ":", "2", "3", ":", "0", "5">>,
       <<"5", "0">>, <<"0">>, <<"0">>,
       <<"1", "2", "3", ".", "4">>,
       <<"U", "T", "C", "(", "N", "I", "S", "T", ")">>,
       <<"*">> >>

\* The example cut after each number of fields: 0 to 9 of them.
CutLines == { Words(SubSeq(ExampleFields, 1, k)) : k \in 0..Len(ExampleFields) }

\* Date and time fields that are not digits where digits belong, that are
\* too short, or that hold a character of more than one byte.
OddDates ==
    { <<"2", "x", "-", "0", "6", "-", "0", "1">>,
      <<"2", "4", "-", "0", "x", "-", "0", "1">>,
      <<"2", "4", "-", "0", "6", "-", "x", "1">>,
      <<"+", "5", "-", "0", "6", "-", "0", "1">>,
      <<"-", "5", "-", "0", "6", "-", "0", "1">>,
      <<"2", "4", "-", "-", "6", "-", "0", "1">>,
      <<"2", "4", "/", "0", "6", "/", "0", "1">>,
      <<"2", "4", "-", "0", "6", "-", "1">>,
      <<"2", "EF", "BF", "BD", "-", "0", "6", "-", "0", "1">>,
      <<"2", "4", "-", "0", "6", "-", "0", "1", "9">> }

OddTimes ==
    { <<"1", "x", ":", "2", "3", ":", "0", "5">>,
      <<"1", "4", ":", "x", "3", ":", "0", "5">>,
      <<"1", "4", ":", "2", "3", ":", "+", "5">>,
      <<"1", "4", ":", "2", "3", ":", "-", "5">>,
      <<"1", "4", ":", "2", "3">>,
      <<"1", "4", ".", "2", "3", ".", "0", "5">> }

OddLines ==
    { Words([ExampleFields EXCEPT ![2] = d]) : d \in OddDates }
    \cup { Words([ExampleFields EXCEPT ![3] = t]) : t \in OddTimes }

\* The reply lines the parser is run on.
TestReplies == YearLines \cup TimeLines \cup CutLines \cup OddLines

InitParse ==
    /\ mode = "parse"
    /\ interval = 1
    /\ pc = "parse"
    /\ trueTime = StartTime
    /\ now = StartTime
    /\ sleep_until = NoTime
    /\ time_string \in TestReplies
    /\ parsed = NoParse
    /\ outcome = "none"
    /\ printed = "none"
    /\ chan = 0
    /\ reported = <<>>
    /\ handler = "none"
    /\ lastAck = "none"
    /\ syncsStarted = 0
    /\ stopsSent = 0
    /\ polls = 0
    /\ stopPhase = "none"
    /\ calc = NoCalc

\* let time_tm = parse_nist_response(&time_string);
ParseOnly ==
    /\ mode = "parse" /\ pc = "parse"
    /\ parsed' = parse_nist_response(time_string)
    /\ pc' = "parsed"
    /\ UNCHANGED <<mode, interval, now, trueTime, sleep_until, time_string, outcome,
                   printed, chan, reported, handler, lastAck, syncsStarted,
                   stopsSent, polls>>
    /\ UNCHANGED <<stopPhase, calc>>

SpecParse == InitParse /\ [][ParseOnly]_vars

\* ------------------------------------------------- the interval arithmetic
\* args.interval is a u64 and `args.interval * 60` is a 64-bit product.  A
\* 64-bit value is kept as four 16-bit limbs, least significant first.

LimbBase == 65536

U64Limbs == 4

\* A small natural number as a u64.
U64Of(n) == <<n % LimbBase, (n \div LimbBase) % LimbBase, 0, 0>>

\* x * k in full, one limb longer than x; k is a small factor.
WideMul(x, k) ==
    LET n == Len(x)
        c[i \in 1..(n + 1)] ==
            IF i = 1 THEN 0 ELSE (x[i - 1] * k + c[i - 1]) \div LimbBase
    IN  [i \in 1..(n + 1) |-> IF i <= n THEN (x[i] * k + c[i]) % LimbBase ELSE c[i]]

\* x + y in full, one limb longer than x and y.
WideAdd(x, y) ==
    LET n == Len(x)
        c[i \in 1..(n + 1)] ==
            IF i = 1 THEN 0 ELSE (x[i - 1] + y[i - 1] + c[i - 1]) \div LimbBase
    IN  [i \in 1..(n + 1) |-> IF i <= n THEN (x[i] + y[i] + c[i]) % LimbBase ELSE c[i]]

\* floor(x / d) for a small divisor d.
DivSmall(x, d) ==
    LET n == Len(x)
        r[i \in 1..(n + 1)] ==
            IF i = n + 1 THEN 0 ELSE (r[i + 1] * LimbBase + x[i]) % d
    IN  [i \in 1..n |-> (r[i + 1] * LimbBase + x[i]) \div d]

\* x < y and x <= y on values of the same length.
wide_lt(x, y) ==
    \E i \in 1..Len(x) : x[i] < y[i] /\ \A j \in (i + 1)..Len(x) : x[j] = y[j]

wide_le(x, y) == x = y \/ wide_lt(x, y)

\* u64 `*`: the low 64 bits of the product, and whether bits were lost.
u64_mul(x, k) ==
    LET w == WideMul(x, k)
    IN  [val |-> [i \in 1..U64Limbs |-> w[i]], overflow |-> w[U64Limbs + 1] # 0]

\* 2^64 - x for x > 0: the magnitude of a negative two's-complement value.
wrapping_neg(x) ==
    LET w == WideAdd([i \in 1..U64Limbs |-> LimbBase - 1 - x[i]], U64Of(1))
    IN  [i \in 1..U64Limbs |-> w[i]]

\* `as i64` on a u64: the same bits, read as two's complement.
as_i64(x) ==
    IF x[U64Limbs] >= LimbBase \div 2
    THEN [neg |-> TRUE, mag |-> wrapping_neg(x)]
    ELSE [neg |-> FALSE, mag |-> x]

\* i64::MAX.
I64Max == <<LimbBase - 1, LimbBase - 1, LimbBase - 1, LimbBase \div 2 - 1>>

\* The largest count of minutes a chrono Duration holds: Duration::MAX is
\* i64::MAX milliseconds (and MIN at least its negation).
DurationMaxMinutes == DivSmall(DivSmall(I64Max, MillisPerSec), 60)

\* chrono::Duration::minutes(m): panics when out of bounds.
Duration_minutes(m) == wide_le(m.mag, DurationMaxMinutes)

\* The years a chrono date can hold; the range was narrowed by one year at
\* each end in later releases of the crate.
ChronoRanges == {[min |-> -262144, max |-> 262143], [min |-> -262143, max |-> 262142]}

\* Years are counted from a year that is a multiple of 400 and below every
\* year a date can hold, so that the counts are natural numbers.
YearShift == 262400

MinutesPerDay == 1440

\* Days from the first day of the shifted year 0 to the first day of year y.
DaysBeforeYear(y) ==
    LET n == y + YearShift
    IN  n * 365 + (n + 3) \div 4 - (n + 99) \div 100 + (n + 399) \div 400

\* Days from the first day of t's year to t's day.
DaysBeforeDay(t) ==
    LET before[m \in 1..12] ==
            IF m = 1 THEN 0 ELSE before[m - 1] + days_in_month(t.year, m - 1)
    IN  before[t.month] + t.day - 1

\* The minute t lies in, counted from the first minute of the shifted year 0.
MinuteIndex(t) ==
    LET days == u64_mul(U64Of(DaysBeforeYear(t.year) + DaysBeforeDay(t)), MinutesPerDay).val
    IN  WideAdd(days, U64Of(t.secs \div 60))

\* The first minute of year y, on the same count.
YearStart(y) == WideAdd(u64_mul(U64Of(DaysBeforeYear(y)), MinutesPerDay).val, U64Of(0))

\* `time + duration` on a DateTime<Utc>: panics when the sum leaves the
\* range of dates; d is a signed count of whole minutes.
DateTime_add_ok(t, d, range) ==
    LET pad == [i \in 1..(U64Limbs + 1) |-> IF i <= U64Limbs THEN d.mag[i] ELSE 0]
    IN  IF d.neg
        THEN LET low == WideAdd(YearStart(range.min), pad)
             IN  low[U64Limbs + 2] = 0 /\
                 wide_le([i \in 1..(U64Limbs + 1) |-> low[i]], MinuteIndex(t))
        ELSE LET high == WideAdd(MinuteIndex(t), pad)
             IN  high[U64Limbs + 2] = 0 /\
                 wide_lt([i \in 1..(U64Limbs + 1) |-> high[i]], YearStart(range.max + 1))

\* What the arithmetic yields: a sleep length in seconds, a wake offset in
\* minutes, or a panic.
NoResult == [kind |-> "none", neg |-> FALSE, amount |-> U64Of(0), at |-> "none"]

ArithPanic(what) == [kind |-> "panic", neg |-> FALSE, amount |-> U64Of(0), at |-> what]

\* thread::sleep(Duration::from_secs(args.interval * 60)): the product
\* panics on overflow when the build checks overflow and wraps otherwise;
\* Duration::from_secs takes any u64.
sleep_length(i, overflow_checks) ==
    LET p == u64_mul(i, SleepFactor)
    IN  IF p.overflow /\ overflow_checks THEN ArithPanic("multiply")
        ELSE [kind |-> "sleep", neg |-> FALSE, amount |-> p.val, at |-> "none"]

\* time + chrono::Duration::minutes((args.interval * 60) as i64): the
\* product as above, the cast, the bounds of Duration, the range of dates.
wake_offset(i, overflow_checks, time, range) ==
    LET p == u64_mul(i, WakeFactor)
        m == as_i64(p.val)
    IN  IF p.overflow /\ overflow_checks THEN ArithPanic("multiply")
        ELSE IF ~Duration_minutes(m) THEN ArithPanic("Duration::minutes")
        ELSE IF ~DateTime_add_ok(time, m, range) THEN ArithPanic("DateTime + Duration")
        ELSE [kind |-> "wake", neg |-> m.neg, amount |-> m.mag, at |-> "none"]

\* Limbs the intervals tried are made of: they give the small intervals, the
\* powers 2^31, 2^32 and 2^48, the quotients of 2^63 and 2^64 by 60 with
\* their successors, and u64::MAX.
LimbSamples == {0, 1, 60, 546, 1092, 8738, 8739, 17476, 17477, 32768, 65535}

IntervalSamples ==
    {<<a, b, c, d>> : a \in LimbSamples, b \in LimbSamples,
                      c \in LimbSamples, d \in LimbSamples}

\* The arithmetic alone: any interval the command line accepts as a u64, a
\* build with or without overflow checks, either range of dates.
InitArith ==
    /\ mode \in {"foreground", "service"}
    /\ interval = 1
    /\ pc = "calc"
    /\ trueTime = StartTime
    /\ now = StartTime
    /\ sleep_until = NoTime
    /\ time_string = <<>>
    /\ parsed = NoParse
    /\ outcome = "none"
    /\ printed = "none"
    /\ chan = 0
    /\ reported = <<>>
    /\ handler = "none"
    /\ lastAck = "none"
    /\ syncsStarted = 0
    /\ stopsSent = 0
    /\ polls = 0
    /\ stopPhase = "none"
    /\ \E i \in IntervalSamples, checks \in BOOLEAN, range \in ChronoRanges :
         calc = [kind |-> "input", interval |-> i, overflow_checks |-> checks,
                 range |-> range, time |-> StartTime, result |-> NoResult]

\* The Ok arm's arithmetic after a sync that returned calc.time.
IntervalArithmetic ==
    /\ pc = "calc" /\ calc.kind = "input"
    /\ calc' = [calc EXCEPT
                  !.kind = "done",
                  !.result = IF mode = "service"
                             THEN wake_offset(calc.interval, calc.overflow_checks,
                                              calc.time, calc.range)
                             ELSE sleep_length(calc.interval, calc.overflow_checks)]
    /\ pc' = "calc_done"
    /\ UNCHANGED <<mode, interval, now, trueTime, sleep_until, time_string, parsed,
                   outcome, printed, chan, reported, handler, lastAck,
                   syncsStarted, stopsSent, polls, stopPhase>>

SpecArith == InitArith /\ [][IntervalArithmetic]_vars

\* ---------------------------------------------- the reply format, as read
\* from the protocol description: what a reply line says, decoded by
\* position and by table, without the parser's operators.

DecimalValue ==
    ("0" :> 0) @@ ("1" :> 1) @@ ("2" :> 2) @@ ("3" :> 3) @@ ("4" :> 4) @@
    ("5" :> 5) @@ ("6" :> 6) @@ ("7" :> 7) @@ ("8" :> 8) @@ ("9" :> 9)

IsDecimal(c) == c \in DOMAIN DecimalValue

\* dd?dd?dd with the separator sep at ? and decimal digits elsewhere.
HasShape(f, sep) ==
    /\ Len(f) = 8
    /\ f[3] = sep /\ f[6] = sep
    /\ \A i \in {1, 2, 4, 5, 7, 8} : IsDecimal(f[i])

PairAt(f, i) == DecimalValue[f[i]] * 10 + DecimalValue[f[i + 1]]

MonthLengths == <<31, 28, 31, 30, 31, 30, 31, 31, 30, 31, 30, 31>>

\* Days of month mo of year 2000 + yy: in 2000..2099 every fourth year is a
\* leap year.
LengthOfMonth(yy, mo) == IF mo = 2 /\ yy % 4 = 0 THEN 29 ELSE MonthLengths[mo]

ReplyFields(line) == split_whitespace(line)

\* A reply with the documented layout whose date and time exist.
WellFormedReply(line) ==
    LET f == ReplyFields(line)
    IN  /\ Len(f) >= 7
        /\ HasShape(f[2], "-") /\ HasShape(f[3], ":")
        /\ PairAt(f[2], 4) \in 1..12
        /\ PairAt(f[2], 7) \in 1..LengthOfMonth(PairAt(f[2], 1), PairAt(f[2], 4))
        /\ PairAt(f[3], 1) \in 0..23
        /\ PairAt(f[3], 4) \in 0..59
        /\ PairAt(f[3], 7) \in 0..59
        /\ \E e \in AdvTable : e[1] = f[7]

\* A reply the protocol description calls malformed: fewer than 7 fields, a
\* date or time component that is not two digits, or a date or time that
\* does not exist.
MalformedReply(line) ==
    LET f == ReplyFields(line)
    IN  \/ Len(f) < 7
        \/ ~HasShape(f[2], "-")
        \/ ~HasShape(f[3], ":")
        \/ PairAt(f[2], 4) \notin 1..12
        \/ PairAt(f[2], 7) \notin 1..LengthOfMonth(PairAt(f[2], 1), PairAt(f[2], 4))
        \/ PairAt(f[3], 1) \notin 0..23
        \/ PairAt(f[3], 4) \notin 0..59
        \/ PairAt(f[3], 7) \notin 0..59

\* The whole milliseconds the seventh field of a well-formed reply stands for.
AdvMillis(line) ==
    LET f == ReplyFields(line)
    IN  (CHOOSE e \in AdvTable : e[1] = f[7])[2]

\* ------------------------------------------------------------------ claims

\* C6: for every reply line with fewer than 7 fields, or a non-numeric
\* date/time component, or an invalid calendar date or time, parse returns a
\* FormatError as an error outcome: it never panics and never yields an
\* instant. (The code has no such outcome: it panics, or yields an instant.)
C6_MalformedIsFormatError ==
    (pc = "parsed" /\ MalformedReply(time_string)) => parsed.kind = "format_error"

\* C9: for every well-formed reply line, parse returns the UTC instant whose
\* year is 2000 + YY, whose month and day are the decoded fields, and whose
\* time of day is the decoded HH:MM:SS plus the seventh field truncated
\* toward zero as milliseconds; with 0 <= ms < 1000, the protocol's range,
\* hour, minute and second are the decoded fields and the millisecond is ms.
C9_WellFormedParses ==
    (pc = "parsed" /\ WellFormedReply(time_string)) =>
        LET f  == ReplyFields(time_string)
            t  == parsed.time
            ms == AdvMillis(time_string)
            total == (PairAt(f[3], 1) * 3600 + PairAt(f[3], 4) * 60 + PairAt(f[3], 7)) * 1000 + ms
        IN  /\ parsed.kind = "ok"
            /\ (ms >= 0 /\ ms < 1000) =>
                   /\ t.year = 2000 + PairAt(f[2], 1)
                   /\ t.month = PairAt(f[2], 4)
                   /\ t.day = PairAt(f[2], 7)
                   /\ hour(t) = PairAt(f[3], 1)
                   /\ minute(t) = PairAt(f[3], 4)
                   /\ second(t) = PairAt(f[3], 7)
                   /\ timestamp_subsec_millis(t) = ms
            /\ (total >= 0 /\ total < 86400000) =>
                   /\ t.year = 2000 + PairAt(f[2], 1)
                   /\ t.month = PairAt(f[2], 4)
                   /\ t.day = PairAt(f[2], 7)
                   /\ t.secs * 1000 + t.frac = total
            /\ total >= 86400000 =>
                   /\ t.secs * 1000 + t.frac = total - 86400000
                   /\ t.day = PairAt(f[2], 7) + 1 \/ t.day = 1
            /\ total < 0 =>
                   /\ t.secs * 1000 + t.frac = total + 86400000
                   /\ t.day = PairAt(f[2], 7) - 1 \/ PairAt(f[2], 7) = 1

\* C9's case: the specification's example reply has been parsed, to
\* 2024-06-01T14:23:05.123Z.
C9_Witness ==
    /\ pc = "parsed"
    /\ time_string = Words(ExampleFields)
    /\ WellFormedReply(time_string)
    /\ parsed = [kind |-> "ok", at |-> 0,
                 time |-> [year |-> 2024, month |-> 6, day |-> 1,
                           secs |-> 51785, frac |-> 123]]

Failures == {"network", "format", "EPERM", "EINVAL"}

\* The scheduler is in its Sleep phase, blocked in recv_timeout.
Sleeping == mode = "service" /\ pc = "recv"

\* C1: in managed-service mode, once a stop event has been raised while the
\* scheduler is in its Sleep phase, the wait does not time out again: the
\* only step the loop can take is to leave (Ok(_) => break), no time of the
\* interval passes and no further Sync phase starts.
C1_StopInSleepExits ==
    /\ []((Sleeping /\ chan > 0) => (ENABLED RecvStop /\ ~ENABLED RecvTimedOut))
    /\ [][(Sleeping /\ chan > 0) =>
             (trueTime' = trueTime /\ syncsStarted' = syncsStarted
              /\ pc' \in {"recv", "report_stopped"})]_vars

\* C1's case: the loop has left on a stop raised during a Sleep phase, after
\* some polls had timed out and before the wake time was reached.
C1_Witness ==
    /\ mode = "service" /\ pc = "report_stopped"
    /\ outcome = "ok" /\ syncsStarted = 1
    /\ polls > 0 /\ stopsSent >= 1
    /\ ~TimeGe(now, sleep_until)

NumberOf(seq, x) == Cardinality({i \in 1..Len(seq) : seq[i] = x})

\* C2: in managed-service mode with an interval of at least 1, on every
\* path that leaves the service once its handler is registered (stop, failed
\* fetch, parse or clock-set, failed status report), Stopped has been
\* reported to the host exactly once.
C2_StoppedExactlyOnce ==
    (mode = "service" /\ interval >= 1 /\ handler # "none"
     /\ pc \in {"returned", "panicked"}) =>
        NumberOf(reported, "Stopped") = 1

\* C3: a failure of a Sync phase (fetch, parse or clock set) is terminal to
\* the sync loop in both modes: after it no further Sync phase starts.
C3_FailureIsTerminal ==
    [][(outcome \in Failures) =>
          (syncsStarted' = syncsStarted
           /\ pc' \notin {"fetch", "apply", "sleep", "recv"})]_vars

\* C3's case: a Sync phase has failed at the clock-set stage while the loop
\* could still have started another one, and the loop has ended.
C3_Witness ==
    /\ outcome \in {"EPERM", "EINVAL"}
    /\ syncsStarted < MaxSyncs
    /\ pc \in {"done", "returned"}

\* T + I minutes, T the instant the last successful sync returned.
TPlusInterval == AddMillis(parsed.time, interval * 60 * 1000)

\* C4: after a successful sync that returned T, with I >= 1, the next sync
\* attempt is scheduled at T + I minutes: the service's wake time is
\* T + I minutes, and the foreground loop's next attempt starts when the
\* clock it set reads T + I minutes (to the second the clock was set to).
C4_NextWakeIsTPlusI ==
    /\ (mode = "service" /\ pc = "recv" /\ outcome = "ok" /\ interval >= 1) =>
           sleep_until = TPlusInterval
    /\ (mode = "foreground" /\ pc = "fetch" /\ outcome = "ok" /\ interval >= 1) =>
           /\ TimeGe(TPlusInterval, now)
           /\ TimeGe(now, AddMillis(TPlusInterval, -999))

\* C5: a network fetch failure is never an unhandled fault: it reaches the
\* scheduler as an error value, which the scheduler reports.
C5_FetchFailureIsReported ==
    outcome = "network" =>
        /\ pc # "panicked"
        /\ printed = SyncError("")

\* C7: with interval = 0 no Sync phase is ever entered, whichever entry
\* point runs the scheduler.
C7_ZeroIntervalRejected ==
    interval = 0 => (syncsStarted = 0 /\ pc \notin {"fetch", "apply"})

IsPrefix(a, b) == Len(a) <= Len(b) /\ a = SubSeq(b, 1, Len(a))

C10_FailureKindsDistinct ==
    \A a, b \in ClockAnswers :
        (outcome = a /\ a # "ok" /\ b \notin {"ok", a}) =>
            printed # SyncError(set_system_time(b).err)

\* ---------------------------------------------------------------------------
\* C11: the first Sync phase starts at once, in both modes: nothing sleeps
\* and nothing waits on the stop channel before a first sync attempt has
\* begun, and no time has passed when it begins.  A run with no sync attempt
\* at all is one that never entered the loop: the interval was refused, or
\* the service failed to register or to report Running.
C11_FirstSyncImmediately ==
    /\ pc \in {"sleep", "recv"} => syncsStarted >= 1
    /\ syncsStarted = 0 =>
          /\ polls = 0 /\ trueTime = StartTime
          /\ pc \in {"main", "done", "returned"}
          /\ pc = "done" => ~IntervalAccepted
          /\ pc = "returned" => reported = <<>>
    /\ (syncsStarted = 1 /\ pc = "fetch") => (trueTime = StartTime /\ polls = 0)

\* The service has just entered its loop and stands in its first Sync phase.
C11_Witness ==
    /\ mode = "service" /\ interval >= 1
    /\ pc = "fetch" /\ syncsStarted = 1
    /\ reported = <<"Running">> /\ sleep_until = now

\* The main thread is inside a Sync phase of the service loop.
InSync == mode = "service" /\ pc \in {"fetch", "apply"}

\* ---------------------------------------------------------------------------
\* C12: a stop delivered while the service is in a Sync phase neither cancels
\* the phase nor gets lost.  The delivery changes nothing of the main thread
\* (its position, the reply, the clock, the next wake time); the message
\* stays queued while the phase goes on, and the fetch can go on (the step
\* after it has no condition but the position); once the
\* phase has ended in the wait on the channel, the next step of the main
\* thread is the break, with no time passed; and no further Sync phase starts
\* while a stop is queued.
C12_StopDuringSyncSurvives ==
    /\ []((InSync /\ chan > 0 /\ pc = "fetch") => ENABLED Fetch)
    /\ []((stopPhase \in {"fetch", "apply"} /\ pc \in {"fetch", "apply", "recv"})
            => chan > 0)
    /\ [][(stopsSent' # stopsSent) =>
            UNCHANGED <<pc, now, trueTime, sleep_until, time_string, parsed,
                        outcome, syncsStarted, reported>>]_vars
    /\ [][(InSync /\ chan > 0) =>
            (chan' >= chan /\
             pc' \in {"fetch", "apply", "recv", "report_stopped", "panicked"})]_vars
    /\ [][(mode = "service" /\ chan > 0) => (syncsStarted' = syncsStarted)]_vars
    /\ [][(mode = "service" /\ pc = "recv" /\ chan > 0 /\ pc' # pc) =>
            (pc' = "report_stopped" /\ trueTime' = trueTime /\ chan' = chan - 1)]_vars

\* One stop was delivered during the first Sync phase; the phase succeeded
\* and the loop has been left on the stop, with no second Sync.
C12_Witness ==
    /\ mode = "service"
    /\ stopPhase \in {"fetch", "apply"} /\ stopsSent = 1
    /\ outcome = "ok" /\ syncsStarted = 1
    /\ pc = "report_stopped" /\ chan = 0


\* The positions of the main thread inside the scheduler loop.
LoopPcs == {"fetch", "apply", "sleep", "recv"}

\* ---------------------------------------------------------------------------
\* C13: the loop is left only by a Sync phase that failed or by a stop taken
\* from the channel during the Sleep phase.  A Sync phase starts only at the
\* start of the loop or out of the Sleep phase that followed a successful
\* Sync, on a step in which time passes; a successful Sync always goes to
\* the Sleep phase; and while no stop is queued the Sleep phase can always
\* go on (up to the bounds of the exploration), so the loop does not end by
\* itself.
C13_LoopExitsOnlyOnErrorOrStop ==
    /\ [][(pc \in LoopPcs /\ pc' \notin LoopPcs) =>
            (\/ outcome' \in Failures
             \/ (mode = "service" /\ pc = "recv" /\ chan > 0 /\ chan' = chan - 1))]_vars
    /\ [][(syncsStarted' # syncsStarted) =>
            (/\ syncsStarted' = syncsStarted + 1
             /\ pc' = "fetch"
             /\ \/ pc = "main"
                \/ (pc \in {"sleep", "recv"} /\ outcome = "ok" /\ chan = 0 /\
                    trueTime' # trueTime))]_vars
    /\ [][(pc = "apply" /\ outcome' = "ok" /\ pc' # pc) =>
            (pc' = (IF mode = "service" THEN "recv" ELSE "sleep"))]_vars
    /\ []((pc = "sleep" /\ syncsStarted < MaxSyncs) => ENABLED Sleep)
    /\ []((pc = "recv" /\ chan = 0 /\ polls < MaxPolls /\ syncsStarted < MaxSyncs)
            => ENABLED RecvTimedOut)

\* A second Sync phase is under way after a successful first one and a Sleep
\* phase, with no stop ever signalled.
C13_Witness ==
    /\ syncsStarted = 2 /\ pc = "apply"
    /\ outcome = "ok" /\ stopsSent = 0 /\ chan = 0
    /\ trueTime # StartTime


\* The instant the platform call is given, by the words of the claim: the
\* parser's instant, with the sub-second part cut off outside Windows.
CommittedInstant(t) == IF mode = "foreground" THEN [t EXCEPT !.frac = 0] ELSE t

\* A step that writes the system clock: the clock reading changes although
\* no time passes.
ClockWritten == now' # now /\ trueTime' = trueTime

\* ---------------------------------------------------------------------------
\* C14: the system clock is written only by the step that follows a
\* successful fetch and whose parse succeeded; that step ends the Sync phase
\* (so there is at most one write per phase) and the value written is the
\* parsed instant, cut to whole seconds in the foreground program.  A step
\* that ends in a fetch failure, a parse failure or a refused clock call
\* leaves the clock as it was.
C14_ClockWrittenOnlyAfterParse ==
    /\ [][ClockWritten =>
            (/\ pc = "apply" /\ pc' \notin {"fetch", "apply"}
             /\ time_string # <<>>
             /\ parsed' = parse_nist_response(time_string)
             /\ parsed'.kind = "ok"
             /\ outcome' = "ok"
             /\ now' = CommittedInstant(parsed'.time))]_vars
    /\ [][(pc \in {"fetch", "apply"} /\ pc' # pc /\ outcome' \in Failures) =>
            (now' = now /\ trueTime' = trueTime)]_vars
    /\ [][(pc = "apply" /\ pc' # pc /\ outcome' = "ok") =>
            (now' = CommittedInstant(parsed'.time))]_vars

\* The foreground program has set the clock from a reply carrying
\* milliseconds: the clock reads the parsed instant without them.
C14_Witness ==
    /\ mode = "foreground" /\ pc = "sleep" /\ outcome = "ok"
    /\ parsed.kind = "ok" /\ parsed.time.frac > 0
    /\ now = [parsed.time EXCEPT !.frac = 0]
    /\ now # parsed.time


\* ---------------------------------------------------------------------------
\* C15: an interrogate event is acknowledged with NoError and changes
\* nothing else: the stop channel, the next wake time, the states reported
\* to the host, the position of the loop, the clock and the counts of Sync
\* phases are as before.  So with interrogates only, nothing is ever queued
\* on the stop channel and the loop is left only through a failed Sync.
C15_InterrogateChangesNothing ==
    /\ [][HandlerInterrogate =>
            (/\ lastAck' = "NoError"
             /\ UNCHANGED <<chan, sleep_until, reported, pc, now, trueTime,
                            syncsStarted, polls, outcome, handler, stopsSent,
                            time_string, parsed, printed>>)]_vars
    /\ [][(lastAck' # lastAck /\ stopsSent' = stopsSent) =>
            UNCHANGED <<chan, sleep_until, reported, pc, syncsStarted>>]_vars
    /\ [](stopsSent = 0 =>
            (/\ chan = 0
             /\ pc = "report_stopped" => outcome \in {"EPERM", "EINVAL"}))

\* The service has been interrogated while it sleeps; no stop was sent, the
\* channel is empty and the loop goes on waiting.
C15_Witness ==
    /\ mode = "service" /\ pc = "recv" /\ polls > 0
    /\ lastAck = "NoError" /\ stopsSent = 0
    /\ chan = 0 /\ reported = <<"Running">>


\* ---------------------------------------------------------------------------
\* C16: handling a stop event never faults, whenever it is delivered and
\* however many are delivered: the control handler never panics, also after
\* the loop has been left and run_service has returned.
C16_StopNeverFaults == handler # "panicked"


\* The product interval x 60 written out in full, without a width.
TimesSixty(i) == WideMul(i, 60)

\* ---------------------------------------------------------------------------
\* C17: for every accepted interval (any u64 from 1 up) the arithmetic
\* neither faults nor loses anything: no panic, no bits of the 64-bit
\* product lost, no negative offset out of the cast; the foreground sleep is
\* exactly interval x 60 seconds.
C17_IntervalArithmeticExact ==
    (pc = "calc_done" /\ calc.interval # U64Of(0)) =>
        /\ calc.result.kind # "panic"
        /\ ~calc.result.neg
        /\ TimesSixty(calc.interval)[U64Limbs + 1] = 0
        /\ mode = "foreground" =>
             \A k \in 1..U64Limbs :
                calc.result.amount[k] = TimesSixty(calc.interval)[k]


====
